---- MODULE Spec2Model ----
(***************************************************************************)
(* TLV stream decoding of lnp/presentation/tlv.rs: the Stream container,   *)
(* Unmarshaller::unmarshall (the decode loop) and Unmarshaller::raw_parser. *)
(*                                                                         *)
(* A u64 (TypeId, BigSize) is a tuple of four 16-bit limbs, most           *)
(* significant first, so that all 64 bits are kept.  A byte source is a    *)
(* sequence of bytes together with the number of bytes consumed so far.    *)
(***************************************************************************)
EXTENDS Integers, Sequences, FiniteSets, TLC

VARIABLES
    known_types,    \* Unmarshaller.known_types: TypeId -> decoder
    usize_bits,     \* pointer width of the build target (32 or 64)
    reader,         \* the bytes of the byte source handed to the call
    pos,            \* number of bytes of reader consumed so far
    tlv,            \* the local Stream of unmarshall
    prev_type_id,   \* the local baseline of unmarshall
    pc,             \* "idle" | "loop" | "done" | "raw"
    result,         \* what unmarshall returned
    calls,          \* number of unmarshall calls that have returned
    first,          \* the first call that returned: its bytes and result
    rawres,         \* what a direct raw_parser call returned
    oversized_err,  \* error last returned by raw_parser's ceiling check
    truncated_err,  \* error last returned by raw_parser's read_exact
    log,            \* this call so far: the decoder the last iteration
                    \* invoked, the type ids accepted, what insert returned
    last_op         \* the last operation made directly on a Stream

vars == <<known_types, usize_bits, reader, pos, tlv, prev_type_id, pc,
          result, calls, first, rawres, oversized_err, truncated_err, log,
          last_op>>

-----------------------------------------------------------------------------
(* Bounds *)

MaxChunks == 4

MaxRawChunks == 2

MaxReuseLen == 4

MaxCalls == 3

MaxLiveChunks == 2

-----------------------------------------------------------------------------
(* u64 arithmetic on limbs *)

Limb == 256 * 256

U64(n) == <<0, 0, n \div Limb, n % Limb>>

U64Gt(a, b) ==
    \E i \in 1..4 : a[i] > b[i] /\ \A j \in 1..(i - 1) : a[j] = b[j]

U64Lt(a, b) == U64Gt(b, a)

TypeIdZero == U64(0)

is_even(type_id) == type_id[4] % 2 = 0

is_odd(type_id) == ~is_even(type_id)

\* `x as usize`: the identity on a 64-bit target, the low 32 bits on a
\* 32-bit target
AsUsize(x, bits) == IF bits = 64 THEN x ELSE <<0, 0, x[3], x[4]>>

LNP_MSG_MAX_LEN == 65535

-----------------------------------------------------------------------------
(* Errors *)

\* Error::from(DecodeError)
ErrorFrom(e) ==
    CASE e = "ShortRead" -> "Lightning(ShortRead)"
      [] e = "InvalidValue" -> "Lightning(InvalidValue)"
      [] OTHER -> "Lightning(Other)"

Ok(s) == [tag |-> "Ok", stream |-> s]

Err(e) == [tag |-> "Err", err |-> e]

NoResult == [tag |-> "None"]

-----------------------------------------------------------------------------
(* BigSize::read of the lightning crate, on the bytes after position p.    *)
(* A source that ends inside the integer makes read_exact fail with        *)
(* UnexpectedEof, which the crate converts to DecodeError::ShortRead.      *)

BigSizeWidth(n) == CASE n = 253 -> 2 [] n = 254 -> 4 [] n = 255 -> 8 [] OTHER -> 0

BigSizeMin(n) ==
    CASE n = 253 -> <<0, 0, 0, 253>>
      [] n = 254 -> <<0, 0, 1, 0>>
      [] n = 255 -> <<0, 1, 0, 0>>
      [] OTHER -> <<0, 0, 0, 0>>

\* big-endian value of the w bytes after position q
ReadBE(bytes, q, w) ==
    LET b(i) == bytes[q + i] IN
    CASE w = 2 -> <<0, 0, 0, b(1) * 256 + b(2)>>
      [] w = 4 -> <<0, 0, b(1) * 256 + b(2), b(3) * 256 + b(4)>>
      [] w = 8 -> <<b(1) * 256 + b(2), b(3) * 256 + b(4),
                    b(5) * 256 + b(6), b(7) * 256 + b(8)>>

BigSizeRead(bytes, p) ==
    IF Len(bytes) - p < 1
    THEN [ok |-> FALSE, err |-> "ShortRead", val |-> TypeIdZero, pos |-> p]
    ELSE LET n == bytes[p + 1]
             w == BigSizeWidth(n)
         IN  IF w = 0
             THEN [ok |-> TRUE, err |-> "", val |-> U64(n), pos |-> p + 1]
             ELSE IF Len(bytes) - (p + 1) < w
             THEN [ok |-> FALSE, err |-> "ShortRead", val |-> TypeIdZero,
                   pos |-> Len(bytes)]
             ELSE LET x == ReadBE(bytes, p + 1, w) IN
                  IF U64Lt(x, BigSizeMin(n))
                  THEN [ok |-> FALSE, err |-> "InvalidValue",
                        val |-> TypeIdZero, pos |-> p + 1 + w]
                  ELSE [ok |-> TRUE, err |-> "", val |-> x,
                        pos |-> p + 1 + w]

-----------------------------------------------------------------------------
(* Stream *)

Stream_new == [k \in {} |-> 0]

contains_keyNever(s, type_id) == FALSE

contains_key(s, type_id) == type_id \in DOMAIN s

Stream_insertIfAbsent(s, type_id, value) ==
    [stream |-> [k \in (DOMAIN s) \cup {type_id} |->
                    IF k \in DOMAIN s THEN s[k] ELSE value],
     ret |-> ~(type_id \in DOMAIN s)]

\* BTreeMap::insert(..).is_none(): the value is always stored
Stream_insert(s, type_id, value) ==
    [stream |-> [k \in (DOMAIN s) \cup {type_id} |->
                    IF k = type_id THEN value ELSE s[k]],
     ret |-> ~(type_id \in DOMAIN s)]

Stream_getAnyKind(s, type_id, kind) ==
    IF type_id \in DOMAIN s
    THEN [some |-> TRUE, val |-> s[type_id]]
    ELSE [some |-> FALSE, val |-> [kind |-> "None", bytes |-> <<>>]]

\* self.0.get(type_id).and_then(|v| v.downcast_ref::<T>()): a value is
\* tagged with its concrete type (kind), T is the kind asked for
Stream_get(s, type_id, kind) ==
    IF type_id \in DOMAIN s /\ s[type_id].kind = kind
    THEN [some |-> TRUE, val |-> s[type_id]]
    ELSE [some |-> FALSE, val |-> [kind |-> "None", bytes |-> <<>>]]

RawRecord(buf) == [kind |-> "RawRecord", bytes |-> buf]

NoValue == [kind |-> "None", bytes |-> <<>>]

-----------------------------------------------------------------------------
(* Unmarshaller::raw_parser on the bytes after position p.                 *)
(* alloc is the size of the buffer allocated (-1: none), path the return   *)
(* that was taken.                                                         *)

OversizedLengthError == "TlvRecordInvalidLen"

ReadExactErrorIo == "Io"

ReadExactError == "TlvRecordInvalidLen"

raw_parser(bytes, p, bits) ==
    LET r == BigSizeRead(bytes, p) IN
    IF ~r.ok
    THEN [ok |-> FALSE, err |-> ErrorFrom(r.err), val |-> NoValue,
          pos |-> r.pos, alloc |-> -1, path |-> "length"]
    ELSE LET len == AsUsize(r.val, bits) IN
         IF U64Gt(len, U64(LNP_MSG_MAX_LEN))
         THEN [ok |-> FALSE, err |-> OversizedLengthError, val |-> NoValue,
               pos |-> r.pos, alloc |-> -1, path |-> "ceiling"]
         ELSE LET n == len[4] IN
              IF Len(bytes) - r.pos < n
              THEN [ok |-> FALSE, err |-> ReadExactError, val |-> NoValue,
                    pos |-> Len(bytes), alloc |-> n, path |-> "read_exact"]
              ELSE [ok |-> TRUE, err |-> "",
                    val |-> RawRecord(SubSeq(bytes, r.pos + 1, r.pos + n)),
                    pos |-> r.pos + n, alloc |-> n, path |-> "ok"]

-----------------------------------------------------------------------------
(* A registered decoder (an UnmarshallFn of known_types).  The registry    *)
(* maps a type id to the payload length its decoder requires: the decoder  *)
(* reads a BigSize length, fails unless it is the required one, and reads  *)
(* that many bytes.                                                        *)

KnownValue(buf) == [kind |-> "Known", bytes |-> buf]

KnownParser(need, bytes, p) ==
    LET r == BigSizeRead(bytes, p) IN
    IF ~r.ok
    THEN [ok |-> FALSE, err |-> ErrorFrom(r.err), val |-> NoValue, pos |-> r.pos]
    ELSE IF r.val # U64(need)
    THEN [ok |-> FALSE, err |-> "KnownDecoderError", val |-> NoValue,
          pos |-> r.pos]
    ELSE IF Len(bytes) - r.pos < need
    THEN [ok |-> FALSE, err |-> "KnownDecoderError", val |-> NoValue,
          pos |-> Len(bytes)]
    ELSE [ok |-> TRUE, err |-> "",
          val |-> KnownValue(SubSeq(bytes, r.pos + 1, r.pos + need)),
          pos |-> r.pos + need]

\* Unmarshaller::new(): no known type
Unmarshaller_new == [k \in {} |-> 0]

Registries ==
    { Unmarshaller_new,
      [k \in {U64(0)} |-> 0],
      [k \in {U64(0), U64(1)} |-> 1],
      [k \in {U64(1), U64(2)} |-> IF k = U64(1) THEN 0 ELSE 1] }

-----------------------------------------------------------------------------
(* One iteration of the loop of Unmarshaller::unmarshall.                  *)

\* leaving the loop with a result; invoked names the decoder that was
\* called in this iteration ("none", "known" or "raw")
Break(p, s, prev, res, invoked) ==
    [done |-> TRUE, pos |-> p, tlv |-> s, prev |-> prev, result |-> res,
     invoked |-> invoked, fresh |-> TRUE]

ContinueRewind(p, ins, type_id, invoked) ==
    [done |-> FALSE, pos |-> 0, tlv |-> ins.stream, prev |-> type_id,
     result |-> NoResult, invoked |-> invoked, fresh |-> ins.ret]

\* tlv.insert(type_id, rec); prev_type_id = type_id; and the next iteration.
\* ins is what Stream::insert did: the Stream and the returned flag (which
\* the loop does not look at)
Continue(p, ins, type_id, invoked) ==
    [done |-> FALSE, pos |-> p, tlv |-> ins.stream, prev |-> type_id,
     result |-> NoResult, invoked |-> invoked, fresh |-> ins.ret]

ShortReadOutcomeErr(s) == Err(ErrorFrom("ShortRead"))

\* Err(DecodeError::ShortRead) => break Ok(tlv)
ShortReadOutcome(s) == Ok(s)

DuplicateOutcomeOk(s) == Ok(s)

\* Ok(type_id) if tlv.contains_key(&type_id) => break Err(..)
DuplicateOutcome(s) == Err("TlvStreamDuplicateItem")

\* the guard of the ordering arm: type_id > prev_type_id
WrongOrder(type_id, prev) == U64Gt(type_id, prev)

DecoderErrorAsInvalidLen(e) == Err("TlvRecordInvalidLen")

\* parser(&mut reader)?  and  (self.raw_parser)(&mut reader)?
DecoderError(e) == Err(e)

DispatchParityFirst(type_id, reg) ==
    IF is_even(type_id) THEN "even"
    ELSE IF type_id \in DOMAIN reg THEN "known"
    ELSE "raw"

\* if let Some(parser) = known_types.get(..) / else if is_even / else
Dispatch(type_id, reg) ==
    IF type_id \in DOMAIN reg THEN "known"
    ELSE IF is_even(type_id) THEN "even"
    ELSE "raw"

LoopStep(bytes, p, s, prev, reg, bits) ==
    LET r == BigSizeRead(bytes, p)
        type_id == r.val
    IN  IF ~r.ok /\ r.err = "ShortRead"
        THEN Break(r.pos, s, prev, ShortReadOutcome(s), "none")
        ELSE IF ~r.ok
        THEN Break(r.pos, s, prev, Err(ErrorFrom(r.err)), "none")
        ELSE IF WrongOrder(type_id, prev)
        THEN Break(r.pos, s, prev, Err("TlvStreamWrongOrder"), "none")
        ELSE IF contains_key(s, type_id)
        THEN Break(r.pos, s, prev, DuplicateOutcome(s), "none")
        ELSE IF Dispatch(type_id, reg) = "known"
        THEN LET k == KnownParser(reg[type_id], bytes, r.pos) IN
             IF ~k.ok
             THEN Break(k.pos, s, prev, DecoderError(k.err), "known")
             ELSE Continue(k.pos, Stream_insert(s, type_id, k.val), type_id,
                           "known")
        ELSE IF Dispatch(type_id, reg) = "even"
        THEN Break(r.pos, s, prev, Err("TlvRecordEvenType"), "none")
        ELSE LET w == raw_parser(bytes, r.pos, bits) IN
             IF ~w.ok
             THEN Break(w.pos, s, prev, DecoderError(w.err), "raw")
             ELSE Continue(w.pos, Stream_insert(s, type_id, w.val), type_id,
                           "raw")

-----------------------------------------------------------------------------
(* Byte sources *)

Chunks ==
    { <<0>>, <<1>>, <<2>>,
      <<253>>,                               \* a cut-off integer
      <<253, 0, 253>>,                       \* 253
      <<253, 0, 1>>,                         \* 1, not minimal
      <<254, 0, 1, 0, 0>>,                   \* 65536
      <<255, 0, 0, 0, 1, 0, 0, 0, 0>> }      \* 2^32

\* further length fields for raw_parser
RawChunks ==
    (Chunks \ { <<253, 0, 1>> }) \cup { <<253, 255, 255>> }    \* 65535

RECURSIVE Flatten(_)
Flatten(ss) == IF ss = <<>> THEN <<>> ELSE Head(ss) \o Flatten(Tail(ss))

Inputs ==
    { Flatten(ss) : ss \in UNION { [1..n -> Chunks] : n \in 0..MaxChunks } }

RawInputs ==
    { Flatten(ss) : ss \in UNION { [1..n -> RawChunks] : n \in 0..MaxRawChunks } }

LiveInputs ==
    { Flatten(ss) : ss \in UNION { [1..n -> Chunks] : n \in 0..MaxLiveChunks } }

ReuseInputs == UNION { [1..n -> {0, 1}] : n \in 0..MaxReuseLen }

-----------------------------------------------------------------------------
(* Actions *)

NoRaw ==
    [ok |-> FALSE, err |-> "", val |-> NoValue, pos |-> 0, alloc |-> -1,
     path |-> "none"]

NoLog == [invoked |-> "none", accepted |-> <<>>, fresh |-> TRUE]

NoOp ==
    [op |-> "none", key |-> TypeIdZero, value |-> NoValue, kind |-> "",
     before |-> Stream_new, ret |-> FALSE, found |-> NoValue]

NoFirst == [set |-> FALSE, input |-> <<>>, result |-> NoResult, others |-> 0]

InitCommon ==
    /\ usize_bits \in {32, 64}
    /\ reader = <<>>
    /\ pos = 0
    /\ tlv = Stream_new
    /\ prev_type_id = TypeIdZero
    /\ result = NoResult
    /\ calls = 0
    /\ first = NoFirst
    /\ rawres = NoRaw
    /\ oversized_err = "none"
    /\ truncated_err = "none"
    /\ log = NoLog
    /\ last_op = NoOp

Init == InitCommon /\ known_types \in Registries /\ pc = "idle"

BeginStale(bytes) ==
    /\ pc = "idle"
    /\ reader' = bytes
    /\ pos' = 0
    /\ prev_type_id' = TypeIdZero
    /\ result' = NoResult
    /\ pc' = "loop"
    /\ log' = NoLog
    /\ UNCHANGED <<known_types, usize_bits, tlv, calls, first, rawres,
                   oversized_err, truncated_err, last_op>>

\* entry of unmarshall: let mut tlv = Stream::new(); prev_type_id = TypeId(0)
Begin(bytes) ==
    /\ pc = "idle"
    /\ reader' = bytes
    /\ pos' = 0
    /\ tlv' = Stream_new
    /\ prev_type_id' = TypeIdZero
    /\ result' = NoResult
    /\ pc' = "loop"
    /\ log' = NoLog
    /\ UNCHANGED <<known_types, usize_bits, calls, first, rawres,
                   oversized_err, truncated_err, last_op>>

Unmarshall == pc = "idle" /\ \E bytes \in Inputs : Begin(bytes)

UnmarshallLive == pc = "idle" /\ \E bytes \in LiveInputs : Begin(bytes)

UnmarshallAgain == pc = "idle" /\ \E bytes \in ReuseInputs : Begin(bytes)

Iterate ==
    /\ pc = "loop"
    /\ LET n == LoopStep(reader, pos, tlv, prev_type_id, known_types,
                         usize_bits)
       IN  /\ pos' = n.pos
           /\ tlv' = n.tlv
           /\ prev_type_id' = n.prev
           /\ result' = n.result
           /\ pc' = IF n.done THEN "done" ELSE "loop"
           /\ log' = [invoked |-> n.invoked,
                      accepted |-> IF n.done THEN log.accepted
                                   ELSE Append(log.accepted, n.prev),
                      fresh |-> log.fresh /\ n.fresh]
    /\ UNCHANGED <<known_types, usize_bits, reader, calls, first, rawres,
                   oversized_err, truncated_err, last_op>>

\* the call has returned; the Unmarshaller is used again
Return ==
    /\ pc = "done"
    /\ calls < MaxCalls - 1
    /\ calls' = calls + 1
    /\ first' = IF ~first.set
                THEN [set |-> TRUE, input |-> reader, result |-> result,
                      others |-> 0]
                ELSE IF reader # first.input /\ first.others = 0
                THEN [first EXCEPT !.others = 1]
                ELSE first
    /\ pc' = "idle"
    /\ UNCHANGED <<known_types, usize_bits, reader, pos, tlv, prev_type_id,
                   result, rawres, oversized_err, truncated_err, log, last_op>>

\* type ids, values and kinds used on a Stream directly
StreamKeys == {U64(0), U64(1), <<0, 1, 0, 0>>}

StreamValues == {RawRecord(<<>>), RawRecord(<<7>>), KnownValue(<<7>>)}

StreamKinds == {"RawRecord", "Known"}

\* Stream::insert called on a Stream
StreamInsert ==
    /\ pc = "stream"
    /\ \E k \in StreamKeys, v \in StreamValues :
         LET ins == Stream_insert(tlv, k, v) IN
         /\ tlv' = ins.stream
         /\ last_op' = [op |-> "insert", key |-> k, value |-> v, kind |-> "",
                        before |-> tlv, ret |-> ins.ret, found |-> NoValue]
    /\ UNCHANGED <<known_types, usize_bits, reader, pos, prev_type_id, pc,
                   result, calls, first, rawres, oversized_err, truncated_err,
                   log>>

\* Stream::get::<T> called on a Stream
StreamGet ==
    /\ pc = "stream"
    /\ \E k \in StreamKeys, T \in StreamKinds :
         LET g == Stream_get(tlv, k, T) IN
         last_op' = [op |-> "get", key |-> k, value |-> NoValue, kind |-> T,
                     before |-> tlv, ret |-> g.some, found |-> g.val]
    /\ UNCHANGED <<known_types, usize_bits, reader, pos, tlv, prev_type_id,
                   pc, result, calls, first, rawres, oversized_err,
                   truncated_err, log>>

\* a direct call of raw_parser on a byte source
RawParserCall ==
    /\ pc = "raw"
    /\ \E bytes \in RawInputs :
         LET w == raw_parser(bytes, 0, usize_bits) IN
         /\ reader' = bytes
         /\ pos' = w.pos
         /\ rawres' = w
         /\ oversized_err' = IF w.path = "ceiling" THEN w.err ELSE oversized_err
         /\ truncated_err' = IF w.path = "read_exact" THEN w.err
                             ELSE truncated_err
    /\ UNCHANGED <<known_types, usize_bits, tlv, prev_type_id, pc, result,
                   calls, first, log, last_op>>

Next == Unmarshall \/ Iterate

Spec == Init /\ [][Next]_vars

NextReuse == UnmarshallAgain \/ Iterate \/ Return

SpecReuse == Init /\ [][NextReuse]_vars

NextLive == UnmarshallLive \/ Iterate

\* the loop is straight-line code of one thread: an iteration that can run
\* does run
SpecLive == Init /\ [][NextLive]_vars /\ WF_vars(Iterate)

InitStream ==
    InitCommon /\ known_types = Unmarshaller_new /\ pc = "stream"

NextStream == StreamInsert \/ StreamGet

SpecStream == InitStream /\ [][NextStream]_vars

InitRaw == InitCommon /\ known_types = Unmarshaller_new /\ pc = "raw"

NextRaw == RawParserCall

SpecRaw == InitRaw /\ [][NextRaw]_vars

-----------------------------------------------------------------------------
(* What a byte stream is made of, read as TLV records one after the other  *)
(* (lengths taken at their full 64 bits): a known type by its registered   *)
(* decoder, any other type as type, length and that many payload bytes.    *)

RECURSIVE FrameFrom(_, _, _)
FrameFrom(bytes, p, reg) ==
    IF p = Len(bytes)
    THEN [ok |-> TRUE, recs |-> <<>>]
    ELSE LET t == BigSizeRead(bytes, p) IN
         IF ~t.ok
         THEN [ok |-> FALSE, recs |-> <<>>]
         ELSE LET v == IF t.val \in DOMAIN reg
                       THEN KnownParser(reg[t.val], bytes, t.pos)
                       ELSE raw_parser(bytes, t.pos, 64)
              IN  IF ~v.ok
                  THEN [ok |-> FALSE, recs |-> <<>>]
                  ELSE LET rest == FrameFrom(bytes, v.pos, reg) IN
                       [ok |-> rest.ok,
                        recs |-> <<[type |-> t.val, val |-> v.val]>>
                                    \o rest.recs]

StrictlyIncreasing(recs) ==
    \A i \in 1..(Len(recs) - 1) : U64Gt(recs[i + 1].type, recs[i].type)

\* every record well formed, type ids strictly increasing, every type
\* known or unknown-odd
ValidStream(bytes, reg) ==
    LET f == FrameFrom(bytes, 0, reg) IN
    /\ f.ok
    /\ StrictlyIncreasing(f.recs)
    /\ \A i \in 1..Len(f.recs) :
          f.recs[i].type \in DOMAIN reg \/ is_odd(f.recs[i].type)

ExpectedStream(bytes, reg) ==
    LET recs == FrameFrom(bytes, 0, reg).recs IN
    [k \in {recs[i].type : i \in 1..Len(recs)} |->
        (CHOOSE r \in {recs[i] : i \in 1..Len(recs)} : r.type = k).val]

\* bytes[1..q] is a valid stream and the record starting after it has a
\* type id that reads well and is greater than every type id before it
NextTypeAfterValid(bytes, q, reg) ==
    LET pre == SubSeq(bytes, 1, q)
        t == BigSizeRead(bytes, q)
    IN  /\ ValidStream(pre, reg)
        /\ t.ok
        /\ \A i \in 1..Len(FrameFrom(pre, 0, reg).recs) :
              U64Gt(t.val, FrameFrom(pre, 0, reg).recs[i].type)

-----------------------------------------------------------------------------
(* Claims about unmarshall, under Spec *)

\* C1: a stream of well-formed records with strictly increasing type ids,
\* each known or unknown-odd, decodes to Ok with exactly those type ids,
\* each mapped to its decoded value.
C1_ValidStreamDecodes ==
    (pc = "done" /\ ValidStream(reader, known_types))
        => /\ result.tag = "Ok"
           /\ result.stream = ExpectedStream(reader, known_types)

\* C2: a stream of one well-formed record of an unknown odd type decodes
\* to Ok, and the Stream holds under that type id a RawRecord of exactly
\* the payload bytes.
C2_UnknownOddKeptRaw ==
    LET t == BigSizeRead(reader, 0)
        l == BigSizeRead(reader, t.pos)
        w == raw_parser(reader, t.pos, 64)
    IN  (/\ pc = "done"
         /\ t.ok /\ is_odd(t.val) /\ ~(t.val \in DOMAIN known_types)
         /\ w.ok /\ w.pos = Len(reader))
        => /\ result.tag = "Ok"
           /\ t.val \in DOMAIN result.stream
           /\ result.stream[t.val]
                 = RawRecord(SubSeq(reader, l.pos + 1, Len(reader)))

\* C3: a stream of well-formed records in which two records have the same
\* type id fails with TlvStreamDuplicateItem (stated for the type ids a
\* decoder accepts: known, or unknown and odd).
C3_DuplicateRejected ==
    LET f == FrameFrom(reader, 0, known_types) IN
    (/\ pc = "done"
     /\ f.ok
     /\ \A i \in 1..Len(f.recs) :
           f.recs[i].type \in DOMAIN known_types \/ is_odd(f.recs[i].type)
     /\ \E i, j \in 1..Len(f.recs) : i < j /\ f.recs[i].type = f.recs[j].type)
        => result = Err("TlvStreamDuplicateItem")

\* C4: a stream in which a record's type id is even and not in the
\* registry, after valid records only, fails with TlvRecordEvenType.
C4_EvenUnknownRejected ==
    (/\ pc = "done"
     /\ \E q \in 0..Len(reader) :
          /\ NextTypeAfterValid(reader, q, known_types)
          /\ is_even(BigSizeRead(reader, q).val)
          /\ ~(BigSizeRead(reader, q).val \in DOMAIN known_types))
        => result = Err("TlvRecordEvenType")

\* C6: a record of an unknown odd type that declares a length within the
\* ceiling with fewer bytes left in the source makes the decode fail with
\* the truncated-record error (TlvRecordInvalidLen of read_exact).
C6_TruncatedRawRejected ==
    (/\ pc = "done"
     /\ \E q \in 0..Len(reader) :
          LET t == BigSizeRead(reader, q) IN
          /\ NextTypeAfterValid(reader, q, known_types)
          /\ is_odd(t.val)
          /\ ~(t.val \in DOMAIN known_types)
          /\ raw_parser(reader, t.pos, 64).path = "read_exact")
        => result = Err(ReadExactError)

\* C8: a byte source with zero bytes decodes to Ok with an empty Stream,
\* whatever the registry.
C8_EmptySourceOk ==
    (pc = "done" /\ reader = <<>>) => result = Ok(Stream_new)

C8_Witness ==
    /\ pc = "done"
    /\ reader = <<>>
    /\ known_types # Unmarshaller_new
    /\ result.tag = "Ok"

\* C9: the first error ends the call: once an error is the result nothing
\* more is read and the result stays that error; Ok is returned only from
\* the end-of-source arm and carries the whole Stream built, so no partial
\* Stream is ever returned.
C9_FirstErrorEndsCall ==
    /\ [](result.tag = "Err" => pc = "done")
    /\ [][result.tag = "Err" => UNCHANGED <<pos, result, tlv>>]_vars
    /\ [][(result.tag # "Ok" /\ result'.tag = "Ok")
            => /\ ~BigSizeRead(reader, pos).ok
               /\ BigSizeRead(reader, pos).err = "ShortRead"
               /\ result'.stream = tlv]_vars

C9_Witness ==
    /\ pc = "done"
    /\ result.tag = "Err"
    /\ DOMAIN tlv # {}
    /\ pos < Len(reader)

-----------------------------------------------------------------------------
(* Claims about a reused Unmarshaller, under SpecReuse *)

\* C10: a call on the bytes of the first call returns what the first call
\* returned, whatever was decoded in between; known_types never changes;
\* every call starts from an empty Stream and the baseline TypeId(0).
C10_Deterministic ==
    /\ []((pc = "done" /\ first.set /\ reader = first.input)
            => result = first.result)
    /\ [][known_types' = known_types]_vars
    /\ []((pc = "loop" /\ pos = 0)
            => (tlv = Stream_new /\ prev_type_id = TypeIdZero))

C10_Witness ==
    /\ pc = "done"
    /\ first.set
    /\ first.others = 1
    /\ reader = first.input
    /\ result.tag = "Ok"
    /\ DOMAIN result.stream # {}

-----------------------------------------------------------------------------
(* Claims about raw_parser, under SpecRaw *)

\* C5: whenever the 64-bit declared length is greater than
\* LNP_MSG_MAX_LEN, raw_parser fails with the oversized-length error,
\* having allocated no buffer and read nothing after the length field; and
\* no buffer is ever larger than LNP_MSG_MAX_LEN.
C5_OversizedRejectedEarly ==
    LET l == BigSizeRead(reader, 0) IN
    /\ (rawres.path # "none" /\ l.ok /\ U64Gt(l.val, U64(LNP_MSG_MAX_LEN)))
          => /\ ~rawres.ok
             /\ rawres.err = OversizedLengthError
             /\ rawres.alloc = -1
             /\ rawres.pos = l.pos
    /\ rawres.alloc <= LNP_MSG_MAX_LEN

\* C7 as stated: the error of the ceiling check differs from the error of
\* a short payload.
C7_ErrorsDistinct ==
    (oversized_err # "none" /\ truncated_err # "none")
        => oversized_err # truncated_err

\* C7 as amended: the ceiling check and a short payload both return
\* TlvRecordInvalidLen, so the returned error is the same for both.
C7_ErrorsSame ==
    /\ (rawres.path = "ceiling" => rawres.err = "TlvRecordInvalidLen")
    /\ (rawres.path = "read_exact" => rawres.err = "TlvRecordInvalidLen")
    /\ (oversized_err # "none" /\ truncated_err # "none")
          => oversized_err = truncated_err

C7_Witness ==
    /\ oversized_err # "none"
    /\ truncated_err # "none"
    /\ rawres.path = "read_exact"

-----------------------------------------------------------------------------
(* Claims about the Stream container, under SpecStream *)

\* C11: insert leaves the value stored under the type id, whatever was
\* there, leaves every other key as it was, and returns true exactly when
\* the type id was absent before.
C11_InsertStores ==
    last_op.op = "insert"
        => /\ last_op.key \in DOMAIN tlv
           /\ tlv[last_op.key] = last_op.value
           /\ DOMAIN tlv = DOMAIN last_op.before \cup {last_op.key}
           /\ \A k \in DOMAIN last_op.before :
                 k # last_op.key => tlv[k] = last_op.before[k]
           /\ last_op.ret = ~(last_op.key \in DOMAIN last_op.before)

C11_Witness ==
    /\ last_op.op = "insert"
    /\ last_op.key \in DOMAIN last_op.before
    /\ last_op.before[last_op.key] # last_op.value
    /\ DOMAIN last_op.before # {last_op.key}
    /\ ~last_op.ret

\* C12: get::<T> returns the stored value exactly when the type id is
\* present with a value of kind T, returns nothing otherwise, and leaves
\* the Stream as it was.
C12_GetByKind ==
    last_op.op = "get"
        => /\ last_op.ret
                 = (/\ last_op.key \in DOMAIN last_op.before
                    /\ last_op.before[last_op.key].kind = last_op.kind)
           /\ last_op.ret => last_op.found = last_op.before[last_op.key]
           /\ tlv = last_op.before

C12_Witness ==
    /\ last_op.op = "get"
    /\ last_op.key \in DOMAIN tlv
    /\ tlv[last_op.key].kind # last_op.kind
    /\ ~last_op.ret
    /\ contains_key(tlv, last_op.key)

-----------------------------------------------------------------------------
(* Claims about one iteration of the loop, under Spec *)

C14_WrongOrderOnlyIfNotGreater ==
    [][(pc = "loop" /\ log.accepted # <<>> /\ BigSizeRead(reader, pos).ok)
         => LET type_id == BigSizeRead(reader, pos).val IN
            /\ U64Lt(type_id, prev_type_id)
                  => result' = Err("TlvStreamWrongOrder")
            /\ result' = Err("TlvStreamWrongOrder")
                  => ~U64Gt(type_id, prev_type_id)]_vars

\* C15: when the decoder registered for a known type fails, the call
\* returns that very error, the Stream gets no entry for the type id and
\* the loop ends.
C15_DecoderErrorPassedOn ==
    [][LET r == BigSizeRead(reader, pos) IN
       (/\ pc = "loop"
        /\ r.ok
        /\ ~U64Gt(r.val, prev_type_id)
        /\ ~(r.val \in DOMAIN tlv)
        /\ r.val \in DOMAIN known_types
        /\ ~KnownParser(known_types[r.val], reader, r.pos).ok)
         => /\ result'
                 = Err(KnownParser(known_types[r.val], reader, r.pos).err)
            /\ tlv' = tlv
            /\ ~(r.val \in DOMAIN tlv')
            /\ pc' = "done"]_vars

C15_Witness ==
    /\ pc = "done"
    /\ log.invoked = "known"
    /\ result = Err("KnownDecoderError")
    /\ tlv = Stream_new
    /\ pos < Len(reader)

\* C16: a decoder is invoked only for a record that passed the ordering
\* and duplicate checks: the registered decoder exactly when the type id
\* is in known_types (even or odd), the raw parser exactly when it is
\* absent and odd; otherwise no decoder is invoked and nothing after the
\* type id is consumed.
C16_DispatchAfterChecks ==
    [][pc = "loop"
         => LET r == BigSizeRead(reader, pos)
                pass == /\ r.ok
                        /\ ~U64Gt(r.val, prev_type_id)
                        /\ ~(r.val \in DOMAIN tlv)
            IN  /\ (log'.invoked = "known")
                      = (pass /\ r.val \in DOMAIN known_types)
                /\ (log'.invoked = "raw")
                      = (/\ pass
                         /\ ~(r.val \in DOMAIN known_types)
                         /\ is_odd(r.val))
                /\ (log'.invoked = "none" /\ r.ok) => pos' = r.pos]_vars

C16_Witness ==
    /\ pc = "loop"
    /\ log.invoked = "known"
    /\ log.accepted # <<>>
    /\ is_even(log.accepted[1])
    /\ pos < Len(reader)

\* C17: during a call the Stream holds exactly the accepted type ids,
\* which are pairwise distinct and were accepted in strictly increasing
\* order; insert never found the key present; after an acceptance the
\* baseline is the type id just inserted.
C17_AcceptedDistinct ==
    pc \in {"loop", "done"}
        => /\ DOMAIN tlv = {log.accepted[i] : i \in 1..Len(log.accepted)}
           /\ Cardinality(DOMAIN tlv) = Len(log.accepted)
           /\ \A i, j \in 1..Len(log.accepted) :
                 i < j => U64Lt(log.accepted[i], log.accepted[j])
           /\ log.fresh
           /\ log.accepted # <<>>
                 => prev_type_id = log.accepted[Len(log.accepted)]

C17_Witness ==
    /\ pc = "loop"
    /\ Len(log.accepted) = 1
    /\ log.fresh
    /\ pos < Len(reader)

-----------------------------------------------------------------------------
(* Claims about termination, under SpecLive *)

\* C18: every call reaches a terminal state, and an iteration that does
\* not end the call consumes at least one byte.
C18_Terminates ==
    /\ (pc = "loop") ~> (pc = "done")
    /\ [][(pc = "loop" /\ pc' = "loop") => pos' > pos]_vars

C18_Witness ==
    /\ pc = "loop"
    /\ pos > 0
    /\ log.accepted # <<>>

====
